---------------------------- MODULE Spec2Model ----------------------------
(***************************************************************************)
(* A model of mysql-sniffer.go: the frame carver (carvePacket), the        *)
(* tokenizer (scanToken), the canonicalizer (cleanupQuery) and the         *)
(* per-source packet handler (handlePacket / processPacket) together with  *)
(* the global aggregation state it updates.                                *)
(*                                                                         *)
(* Byte slices and strings are sequences of byte values 0..255.  A nil     *)
(* slice is the empty sequence: handlePacket never delivers an empty       *)
(* payload and carvePacket never leaves an empty non-nil slice, so the two *)
(* coincide on every buffer the program holds.                             *)
(***************************************************************************)
EXTENDS Integers, Sequences, FiniteSets, TLC

VARIABLES
    chmap,       \* src -> source record, the sources seen so far
    qbuf,        \* key text -> queryData record
    querycount,  \* number of completed requests
    times,       \* global latency sample array
    stats,       \* packets.rcvd, packets.rcvd_sync, desyncs, streams
    format,      \* the compiled output format
    last,        \* history: the most recent handlePacket call and its carve
    hist,        \* history: per source, what has been delivered so far
    cbuf,        \* carvePacket harness: the buffer passed by reference
    cin,         \* carvePacket harness: the buffer before the call
    cret,        \* carvePacket harness: the returned (ptype, data)
    cpc,         \* carvePacket harness: position
    query,       \* cleanupQuery harness: the input text
    qout,        \* cleanupQuery harness: cleanupQuery(query)
    qout2,       \* cleanupQuery harness: cleanupQuery(qout)
    qpc,         \* cleanupQuery harness: position
    token,       \* scanToken harness: scanToken(query)
    timings,     \* calculateTimes harness: the array passed
    tret,        \* calculateTimes harness: the returned min, avg, max
    tpc          \* calculateTimes harness: position

vars == <<chmap, qbuf, querycount, times, stats, format, last, hist,
          cbuf, cin, cret, cpc, query, qout, qout2, qpc, token,
          timings, tret, tpc>>

flowVars  == <<chmap, qbuf, querycount, times, stats, format, last, hist>>
carveVars == <<cbuf, cin, cret, cpc>>
cleanVars == <<query, qout, qout2, qpc, token>>
timesVars == <<timings, tret, tpc>>

-----------------------------------------------------------------------------
(* Program constants                                                        *)

TOKEN_DEFAULT == 0
TOKEN_QUOTE == 1
TOKEN_NUMBER == 2
TOKEN_WHITESPACE == 3
COM_QUERY == 3

\* F_NONE = iota is the sixth ConstSpec of the block, so iota is 5.
F_NONE == 5
F_QUERY == 6
F_ROUTE == 7
F_SOURCE == 8
F_SOURCEIP == 9

\* The nil slice / the empty string.
Nil == <<>>

-----------------------------------------------------------------------------
(* Bounds of the model                                                      *)

\* Longest buffer handed to carvePacket in the carver harness.
MaxBuf == 6
\* Longest free-form text handed to cleanupQuery in the canonicalizer harness.
MaxQuery == 4
\* Longest route annotation in the structured canonicalizer inputs.
MaxAnn == 3
\* Slots of the arrays handed to calculateTimes in its harness.
TimesSlots == 4

-----------------------------------------------------------------------------
(* Sequence helpers                                                         *)

\* s[from:to] of Go, 0-based and half-open.
Slice(s, from, to) == SubSeq(s, from + 1, to)

\* All sequences over S of length at most n.
SeqsUpTo(S, n) == UNION {[1..k -> S] : k \in 0..n}

\* 0-based index of the first occurrence of byte sep in s, or -1.
IndexByte(s, sep) ==
    IF \E i \in 1..Len(s) : s[i] = sep
    THEN (CHOOSE i \in 1..Len(s) : s[i] = sep /\ \A j \in 1..(i - 1) : s[j] # sep) - 1
    ELSE -1

\* strings.Contains(s, sep) for a one-byte separator.
Contains(s, sep) == IndexByte(s, sep) >= 0

\* strings.SplitN(s, sep, n) for a one-byte separator and n > 0: at most n
\* substrings, the last one being the unsplit remainder.
RECURSIVE SplitN(_, _, _)
SplitN(s, sep, n) ==
    LET i == IndexByte(s, sep) IN
    IF n <= 1 \/ i < 0
    THEN <<s>>
    ELSE <<Slice(s, 0, i)>> \o SplitN(Slice(s, i + 1, Len(s)), sep, n - 1)

\* strings.Join(a, "").
RECURSIVE Join(_)
Join(a) == IF a = <<>> THEN <<>> ELSE Head(a) \o Join(Tail(a))

-----------------------------------------------------------------------------
(* carvePacket                                                              *)

\* carvePacket without the size == 0 test.
carvePacket_NoZeroTest(buf) ==
    LET datalen == Len(buf) IN
    IF datalen < 5
    THEN [ptype |-> -1, data |-> Nil, buf |-> buf]
    ELSE
        LET size == buf[1] + buf[2] * 256 + buf[3] * 65536 IN
        IF datalen < size + 4
        THEN [ptype |-> -1, data |-> Nil, buf |-> buf]
        ELSE
            LET end == size + 4 IN
            [ptype |-> buf[5],
             data  |-> Slice(buf, 5, size + 4),
             buf   |-> IF end >= datalen THEN Nil ELSE Slice(buf, end, datalen)]

\* carvePacket cutting the buffer at size instead of size + 4.
carvePacket_CutsAtSize(buf) ==
    LET datalen == Len(buf) IN
    IF datalen < 5
    THEN [ptype |-> -1, data |-> Nil, buf |-> buf]
    ELSE
        LET size == buf[1] + buf[2] * 256 + buf[3] * 65536 IN
        IF size = 0 \/ datalen < size + 4
        THEN [ptype |-> -1, data |-> Nil, buf |-> buf]
        ELSE
            LET end == size IN
            [ptype |-> buf[5],
             data  |-> Slice(buf, 5, size + 4),
             buf   |-> IF end >= datalen THEN Nil ELSE Slice(buf, end, datalen)]

\* carvePacket returning the data from the command byte on.
carvePacket_DataFromType(buf) ==
    LET datalen == Len(buf) IN
    IF datalen < 5
    THEN [ptype |-> -1, data |-> Nil, buf |-> buf]
    ELSE
        LET size == buf[1] + buf[2] * 256 + buf[3] * 65536 IN
        IF size = 0 \/ datalen < size + 4
        THEN [ptype |-> -1, data |-> Nil, buf |-> buf]
        ELSE
            LET end == size + 4 IN
            [ptype |-> buf[5],
             data  |-> Slice(buf, 4, size + 4),
             buf   |-> IF end >= datalen THEN Nil ELSE Slice(buf, end, datalen)]

\* The result of carvePacket(&buf): the returned type and data, and the
\* value *buf holds after the call.
carvePacket(buf) ==
    LET datalen == Len(buf) IN
    IF datalen < 5
    THEN [ptype |-> -1, data |-> Nil, buf |-> buf]
    ELSE
        LET size == buf[1] + buf[2] * 256 + buf[3] * 65536 IN
        IF size = 0 \/ datalen < size + 4
        THEN [ptype |-> -1, data |-> Nil, buf |-> buf]
        ELSE
            LET end == size + 4 IN
            [ptype |-> buf[5],
             data  |-> Slice(buf, 5, size + 4),
             buf   |-> IF end >= datalen THEN Nil ELSE Slice(buf, end, datalen)]

-----------------------------------------------------------------------------
(* scanToken                                                                *)

IsQuote(b) == b = 39 \/ b = 34
IsDigit(b) == b >= 48 /\ b <= 57
IsSpace(b) == b = 32 \/ (b >= 9 /\ b <= 13)

\* The quoted-literal loop from index i (0-based) with the escaped flag.
RECURSIVE ScanQuote(_, _, _)
ScanQuote(q, i, escaped) ==
    IF i >= Len(q)
    THEN [length |-> Len(q), thistype |-> TOKEN_QUOTE]
    ELSE IF IsQuote(q[i + 1])
         THEN IF escaped
              THEN ScanQuote(q, i + 1, FALSE)
              ELSE [length |-> i, thistype |-> TOKEN_QUOTE]
         ELSE IF q[i + 1] = 92
              THEN ScanQuote(q, i + 1, TRUE)
              ELSE ScanQuote(q, i + 1, FALSE)

\* The numeric-literal loop from index i.
RECURSIVE ScanNumber(_, _)
ScanNumber(q, i) ==
    IF i >= Len(q)
    THEN [length |-> Len(q), thistype |-> TOKEN_NUMBER]
    ELSE IF IsDigit(q[i + 1])
         THEN ScanNumber(q, i + 1)
         ELSE [length |-> i, thistype |-> TOKEN_NUMBER]

\* The whitespace loop from index i.
RECURSIVE ScanWhitespace(_, _)
ScanWhitespace(q, i) ==
    IF i >= Len(q)
    THEN [length |-> Len(q), thistype |-> TOKEN_WHITESPACE]
    ELSE IF IsSpace(q[i + 1])
         THEN ScanWhitespace(q, i + 1)
         ELSE [length |-> i, thistype |-> TOKEN_WHITESPACE]

\* The default loop without the first case of its switch: a digit ends the
\* run.
RECURSIVE ScanDefault_StopsAtDigit(_, _)
ScanDefault_StopsAtDigit(q, i) ==
    IF i >= Len(q)
    THEN [length |-> Len(q), thistype |-> TOKEN_DEFAULT]
    ELSE IF IsQuote(q[i + 1]) \/ IsDigit(q[i + 1]) \/ IsSpace(q[i + 1])
         THEN [length |-> i, thistype |-> TOKEN_DEFAULT]
         ELSE ScanDefault_StopsAtDigit(q, i + 1)

\* The default loop from index i: the first case of its switch lets digits
\* pass, so the digit test of the second case is never reached.
RECURSIVE ScanDefault(_, _)
ScanDefault(q, i) ==
    IF i >= Len(q)
    THEN [length |-> Len(q), thistype |-> TOKEN_DEFAULT]
    ELSE IF IsDigit(q[i + 1])
         THEN ScanDefault(q, i + 1)
         ELSE IF IsQuote(q[i + 1]) \/ IsDigit(q[i + 1]) \/ IsSpace(q[i + 1])
              THEN [length |-> i, thistype |-> TOKEN_DEFAULT]
              ELSE ScanDefault(q, i + 1)

\* scanToken(query) for a non-empty query.
scanToken(q) ==
    IF IsQuote(q[1]) THEN ScanQuote(q, 1, FALSE)
    ELSE IF IsDigit(q[1]) THEN ScanNumber(q, 1)
    ELSE IF IsSpace(q[1]) THEN ScanWhitespace(q, 1)
    ELSE ScanDefault(q, 1)

-----------------------------------------------------------------------------
(* cleanupQuery                                                             *)

\* The token loop of cleanupQuery: qspace for the text from the current
\* position on.
RECURSIVE Qspace(_)
Qspace(q) ==
    IF Len(q) = 0
    THEN <<>>
    ELSE
        LET tok == scanToken(q)
            out == IF tok.thistype = TOKEN_DEFAULT
                   THEN Slice(q, 0, tok.length)
                   ELSE IF tok.thistype = TOKEN_WHITESPACE
                        THEN <<32>>
                        ELSE <<63>>
        IN <<out>> \o Qspace(Slice(q, tok.length, Len(q)))

\* The hostname removal keeping the text before the colon.
RemoveHostname_KeepsHost(tmp) ==
    LET parts == SplitN(tmp, 32, 5) IN
    IF Len(parts) >= 5 /\ parts[2] = <<47, 42>> /\ parts[4] = <<42, 47>>
       /\ Contains(parts[3], 58)
    THEN parts[1] \o <<32, 47, 42, 32>> \o SplitN(parts[3], 58, 2)[1]
         \o <<32, 42, 47, 32>> \o parts[5]
    ELSE tmp

\* The hostname removal splitting at every colon and keeping the last part.
RemoveHostname_LastColon(tmp) ==
    LET parts == SplitN(tmp, 32, 5) IN
    IF Len(parts) >= 5 /\ parts[2] = <<47, 42>> /\ parts[4] = <<42, 47>>
       /\ Contains(parts[3], 58)
    THEN LET fields == SplitN(parts[3], 58, Len(parts[3]) + 1) IN
         parts[1] \o <<32, 47, 42, 32>> \o fields[Len(fields)]
         \o <<32, 42, 47, 32>> \o parts[5]
    ELSE tmp

\* The hostname removal at the end of cleanupQuery.
RemoveHostname(tmp) ==
    LET parts == SplitN(tmp, 32, 5) IN
    IF Len(parts) >= 5 /\ parts[2] = <<47, 42>> /\ parts[4] = <<42, 47>>
       /\ Contains(parts[3], 58)
    THEN parts[1] \o <<32, 47, 42, 32>> \o SplitN(parts[3], 58, 2)[2]
         \o <<32, 42, 47, 32>> \o parts[5]
    ELSE tmp

cleanupQuery(q) == RemoveHostname(Join(Qspace(q)))

-----------------------------------------------------------------------------
(* calculateTimes                                                           *)

\* The counters before the loop.
TimesStart == [counts |-> 0, total |-> 0, min |-> 0, max |-> 0, has_min |-> FALSE]

\* One round of the loop with the minimum taken only when val < min.
TimesStep_NoHasMin(acc, val) ==
    IF val = 0
    THEN acc
    ELSE [counts  |-> acc.counts + 1,
          total   |-> acc.total + val,
          min     |-> IF val < acc.min THEN val ELSE acc.min,
          max     |-> IF val > acc.max THEN val ELSE acc.max,
          has_min |-> acc.has_min]

\* One round of the loop, for the slot value val.  The counters are uint64:
\* total wraps only past 2^64 nanoseconds of summed samples, which no array
\* of the model holds.
TimesStep(acc, val) ==
    IF val = 0
    THEN acc
    ELSE [counts  |-> acc.counts + 1,
          total   |-> acc.total + val,
          min     |-> IF val < acc.min \/ ~acc.has_min THEN val ELSE acc.min,
          max     |-> IF val > acc.max THEN val ELSE acc.max,
          has_min |-> IF val < acc.min \/ ~acc.has_min THEN TRUE ELSE acc.has_min]

\* The loop over the slots from index i on, in index order; the array is a
\* function on 0..n-1.
RECURSIVE TimesLoop(_, _, _)
TimesLoop(t, i, acc) ==
    IF i \notin DOMAIN t
    THEN acc
    ELSE TimesLoop(t, i + 1, TimesStep(acc, t[i]))

\* calculateTimes(&t): min, avg and max in nanoseconds, the integers the
\* function converts to float64 and divides by 1000000 on return.
calculateTimes(t) ==
    LET acc == TimesLoop(t, 0, TimesStart) IN
    [min |-> acc.min,
     avg |-> IF acc.counts > 0 THEN acc.total \div acc.counts ELSE 0,
     max |-> acc.max]

-----------------------------------------------------------------------------
(* The state of a source and of the aggregation                             *)

\* Number of slots of a latency sample array.  The program has 100; the
\* model keeps the array and the uniform choice of a slot, with fewer slots.
NSlots == 2
\* Most packets handled in one behaviour.
MaxPackets == 4

Slots == 0..(NSlots - 1)
\* The values time.Since(*rs.reqSent) takes in the model, in nanoseconds.
Latencies == {0, 1}

\* A zero-valued [100]uint64.
ZeroTimes == [i \in Slots |-> 0]

\* rs.qdata == nil.
NoData == <<-1>>

\* The sources of the model: "A:1" and "B:2" as ip:port.
Srcs == {<<65, 58, 49>>, <<66, 58, 50>>}

\* The -u flag: queries are canonicalized unless it is given.
dirty == FALSE

\* An int item and a string item of the format slice.
FmtInt(v) == [kind |-> "int", val |-> v]
FmtString(s) == [kind |-> "string", val |-> s]

\* The format slice parseFormat compiles from "#q", the default of -f.
DefaultFormat == <<FmtInt(F_QUERY)>>

\* &source{src: src, srcip: srcip, synced: false}
NewSource(src) ==
    [src       |-> src,
     srcip     |-> Slice(src, 0, IndexByte(src, 58)),
     synced    |-> FALSE,
     reqbuffer |-> Nil,
     resbuffer |-> Nil,
     reqSent   |-> "nil",
     reqTimes  |-> ZeroTimes,
     qbytes    |-> 0,
     qdata     |-> NoData,
     qtext     |-> Nil]

\* &queryData{}
NewQueryData == [count |-> 0, bytes |-> 0, times |-> ZeroTimes]

-----------------------------------------------------------------------------
(* processPacket                                                            *)

\* The F_ROUTE item of the format loop.
RouteText(pdata) ==
    LET parts == SplitN(pdata, 32, 5) IN
    IF Len(parts) >= 4 /\ parts[2] = <<47, 42>> /\ parts[4] = <<42, 47>>
    THEN IF Contains(parts[3], 58)
         THEN SplitN(parts[3], 58, 2)[2]
         ELSE parts[3]
    ELSE <<40, 117, 110, 107, 110, 111, 119, 110, 41, 32>> \o cleanupQuery(pdata)

\* The text one item of the format contributes.
ItemText(item, rs, pdata) ==
    IF item.kind = "string" THEN item.val
    ELSE IF item.val = F_QUERY
         THEN IF dirty THEN pdata ELSE cleanupQuery(pdata)
    ELSE IF item.val = F_ROUTE THEN RouteText(pdata)
    ELSE IF item.val = F_SOURCE THEN rs.src
    ELSE rs.srcip

\* The format loop: the key text of a request.
RECURSIVE FormatText(_, _, _)
FormatText(fmt, rs, pdata) ==
    IF fmt = <<>> THEN <<>>
    ELSE ItemText(Head(fmt), rs, pdata) \o FormatText(Tail(fmt), rs, pdata)

\* The desync test made on the outstanding request instead of the response
\* buffer.
Pipelined_OnPendingRequest(rs, request) == request /\ rs.reqSent # "nil"

\* A request with response bytes still buffered is taken for a desync.
Pipelined(rs, request) == request /\ rs.resbuffer # Nil

\* A desync that drops the response buffer and leaves the source synced.
AfterDesync_KeepsSynced(rs, request) ==
    IF Pipelined(rs, request) THEN [rs EXCEPT !.resbuffer = Nil] ELSE rs

\* The source after the desync test of a request.
AfterDesync(rs, request) ==
    IF Pipelined(rs, request)
    THEN [rs EXCEPT !.resbuffer = Nil, !.synced = FALSE]
    ELSE rs

\* The packet's data is appended to the buffer of its direction.
Buffered_Appends(buffer, data) == buffer \o data

\* The buffer of the packet's direction is set to the packet's data.
Buffered(buffer, data) == data

\* Syncing on any request packet, carved or not.
AcceptsSync_AnyRequest(request, ptype) == request

\* Syncing on any carved request, whatever its command.
AcceptsSync_AnyCommand(request, ptype) == request /\ ptype # -1

\* An unsynced source syncs on a request that carves a COM_QUERY only.
AcceptsSync(request, ptype) == request /\ ptype = COM_QUERY

\* The globals a call leaves as they are.
SameGlobals == [qbuf |-> qbuf, querycount |-> querycount, times |-> times]

\* The response branch without the test of reqSent.
RecordResponse_SamplesOrphan(rs, plen, randn, reqtime) ==
    [rs |-> [rs EXCEPT !.reqTimes[randn] = reqtime, !.reqSent = "nil"],
     branch |-> IF rs.reqSent = "nil" THEN "orphan" ELSE "response",
     qbuf |-> IF rs.qdata # NoData
              THEN [qbuf EXCEPT ![rs.qdata].times[randn] = reqtime,
                                ![rs.qdata].bytes = @ + plen]
              ELSE qbuf,
     querycount |-> querycount,
     times |-> [times EXCEPT ![randn] = reqtime]]

\* The response branch with the global timing stored at the next slot.
RecordResponse_OtherSlot(rs, plen, randn, reqtime) ==
    IF rs.reqSent = "nil"
    THEN [rs |-> rs, branch |-> "orphan"] @@ SameGlobals
    ELSE
        [rs |-> [rs EXCEPT !.reqTimes[randn] = reqtime, !.reqSent = "nil"],
         branch |-> "response",
         qbuf |-> IF rs.qdata # NoData
                  THEN [qbuf EXCEPT ![rs.qdata].times[randn] = reqtime,
                                    ![rs.qdata].bytes = @ + plen]
                  ELSE qbuf,
         querycount |-> querycount,
         times |-> [times EXCEPT ![(randn + 1) % NSlots] = reqtime]]

\* The response branch that leaves the request outstanding.
RecordResponse_KeepsPending(rs, plen, randn, reqtime) ==
    IF rs.reqSent = "nil"
    THEN [rs |-> rs, branch |-> "orphan"] @@ SameGlobals
    ELSE
        [rs |-> [rs EXCEPT !.reqTimes[randn] = reqtime],
         branch |-> "response",
         qbuf |-> IF rs.qdata # NoData
                  THEN [qbuf EXCEPT ![rs.qdata].times[randn] = reqtime,
                                    ![rs.qdata].bytes = @ + plen]
                  ELSE qbuf,
         querycount |-> querycount,
         times |-> [times EXCEPT ![randn] = reqtime]]

\* The response branch: the timing is stored at slot randn.
RecordResponse(rs, plen, randn, reqtime) ==
    IF rs.reqSent = "nil"
    THEN [rs |-> rs, branch |-> "orphan"] @@ SameGlobals
    ELSE
        [rs |-> [rs EXCEPT !.reqTimes[randn] = reqtime, !.reqSent = "nil"],
         branch |-> "response",
         qbuf |-> IF rs.qdata # NoData
                  THEN [qbuf EXCEPT ![rs.qdata].times[randn] = reqtime,
                                    ![rs.qdata].bytes = @ + plen]
                  ELSE qbuf,
         querycount |-> querycount,
         times |-> [times EXCEPT ![randn] = reqtime]]

\* Every request gets a fresh queryData.
Lookup_AlwaysNew(text) == NewQueryData

\* qdata, ok := qbuf[text], with a fresh queryData when the key is new.
Lookup(text) == IF text \in DOMAIN qbuf THEN qbuf[text] ELSE NewQueryData

\* The request branch: the request is counted under its key text.
RecordRequest(rs, pdata, plen) ==
    LET text  == FormatText(format, rs, pdata)
        qdata == Lookup(text)
    IN  [rs |-> [rs EXCEPT !.reqSent = "set", !.qtext = text,
                           !.qdata = text, !.qbytes = plen],
         branch |-> "request",
         qbuf |-> (text :> [qdata EXCEPT !.count = @ + 1, !.bytes = @ + plen])
                  @@ qbuf,
         querycount |-> querycount + 1,
         times |-> times]

\* An unsynced source drops the buffer of the request only.
Discarded_KeepsResponse(rs) == [rs EXCEPT !.reqbuffer = Nil]

\* An unsynced source drops both buffers.
Discarded(rs) == [rs EXCEPT !.reqbuffer = Nil, !.resbuffer = Nil]

\* processPacket(rs, request, data), with the slot rand.Intn picks and the
\* elapsed time should the call record a timing: the source, the globals
\* and the carved packet after the call, and the return the call took
\* (branch).
processPacket(rs, request, data, randn, reqtime) ==
    LET rs1    == AfterDesync(rs, request)
        carved == carvePacket(Buffered(IF request THEN rs1.reqbuffer
                                                  ELSE rs1.resbuffer, data))
        rs2    == IF request
                  THEN [rs1 EXCEPT !.reqbuffer = carved.buf]
                  ELSE [rs1 EXCEPT !.resbuffer = carved.buf]
        ptype  == carved.ptype
        pdata  == carved.data
        plen   == Len(pdata)
        rs3    == [rs2 EXCEPT !.synced = TRUE]
        newstats ==
            [stats EXCEPT !.rcvd = @ + 1,
                          !.rcvd_sync = IF rs.synced THEN @ + 1 ELSE @,
                          !.desyncs = IF Pipelined(rs, request) THEN @ + 1 ELSE @]
        result ==
            IF ~rs2.synced /\ ~AcceptsSync(request, ptype)
            THEN [rs |-> Discarded(rs2), branch |-> "discard"] @@ SameGlobals
            ELSE IF ptype = -1
            THEN [rs |-> rs3, branch |-> "incomplete"] @@ SameGlobals
            ELSE IF ~request
            THEN RecordResponse(rs3, plen, randn, reqtime)
            ELSE RecordRequest(rs3, pdata, plen)
    IN  result @@ [stats |-> newstats, ptype |-> ptype, pdata |-> pdata]

\* Whether the call reaches rand.Intn and time.Since.
TakesSample(rs, request, data) ==
    ~request /\ rs.synced /\ carvePacket(data).ptype # -1 /\ rs.reqSent # "nil"

-----------------------------------------------------------------------------
(* handlePacket                                                             *)

\* The TCP payloads of the model, by direction.  Requests: the queries "a"
\* and "1", a COM_QUIT, the first five bytes and the last byte of the query
\* "a", and the query "a" followed by one more byte.  Responses: a frame
\* with a one-byte payload, the first five bytes of a longer frame, and an
\* OK frame without payload followed by one more byte.
RequestPayloads ==
    {<<2, 0, 0, 0, 3, 97>>, <<2, 0, 0, 0, 3, 49>>, <<1, 0, 0, 0, 1>>,
     <<2, 0, 0, 0, 3>>, <<97>>, <<2, 0, 0, 0, 3, 97, 9>>}
ResponsePayloads ==
    {<<2, 0, 0, 1, 0, 7>>, <<3, 0, 0, 1, 0>>, <<1, 0, 0, 1, 0, 5>>}

NoCall == [src |-> Nil, request |-> FALSE, data |-> Nil, ptype |-> -1,
           pdata |-> Nil, since |-> "none", branch |-> "none",
           wasSynced |-> FALSE, wasPending |-> FALSE, wasPipelined |-> FALSE]

\* The history of a source: whether it ever carved a COM_QUERY request,
\* what it received since its latest counted request, how many requests it
\* counted (nreq) and under which keys (built), and how many timings it
\* recorded (nrec).
NoHist == [sawQuery |-> FALSE, sinceReq |-> "none", nreq |-> 0, nrec |-> 0,
           built |-> <<>>]

\* What the call adds to the history of its source.
NextHist(h, request, r) ==
    [sawQuery |-> h.sawQuery \/ (request /\ r.ptype = COM_QUERY),
     sinceReq |->
        IF request
        THEN IF r.ptype # -1 /\ r.rs.synced THEN "request" ELSE "none"
        ELSE IF r.ptype = -1 /\ h.sinceReq \in {"request", "incomplete"}
             THEN "incomplete"
             ELSE "none",
     nreq |-> IF r.branch = "request" THEN h.nreq + 1 ELSE h.nreq,
     nrec |-> IF r.branch = "response" THEN h.nrec + 1 ELSE h.nrec,
     built |-> IF r.branch = "request"
               THEN (r.rs.qtext :> (IF r.rs.qtext \in DOMAIN h.built
                                    THEN h.built[r.rs.qtext] + 1 ELSE 1))
                    @@ h.built
               ELSE h.built]

\* handlePacket for a packet of the given source, direction and payload:
\* the source is created when it is new, then the packet is processed.
Handle(src, request, data) ==
    /\ stats.rcvd < MaxPackets
    /\ LET known == src \in DOMAIN chmap
           rs    == IF known THEN chmap[src] ELSE NewSource(src)
       IN  \E randn \in IF TakesSample(rs, request, data) THEN Slots ELSE {0},
              reqtime \in IF TakesSample(rs, request, data) THEN Latencies ELSE {0} :
             LET r == processPacket(rs, request, data, randn, reqtime) IN
             /\ chmap' = (src :> r.rs) @@ chmap
             /\ qbuf' = r.qbuf
             /\ querycount' = r.querycount
             /\ times' = r.times
             /\ stats' = [r.stats EXCEPT !.streams = IF known THEN @ ELSE @ + 1]
             /\ last' = [src |-> src, request |-> request, data |-> data,
                         ptype |-> r.ptype, pdata |-> r.pdata,
                         since |-> hist[src].sinceReq, branch |-> r.branch,
                         wasSynced |-> rs.synced,
                         wasPending |-> rs.reqSent = "set",
                         wasPipelined |-> Pipelined(rs, request)]
             /\ hist' = [hist EXCEPT ![src] = NextHist(@, request, r)]
    /\ UNCHANGED <<format, carveVars, cleanVars, timesVars>>

HandleRequest(src, data) == Handle(src, TRUE, data)

HandleResponse(src, data) == Handle(src, FALSE, data)

-----------------------------------------------------------------------------
(* The specification of the packet handler                                  *)

FlowInit ==
    /\ chmap = <<>>
    /\ qbuf = <<>>
    /\ querycount = 0
    /\ times = ZeroTimes
    /\ stats = [rcvd |-> 0, rcvd_sync |-> 0, desyncs |-> 0, streams |-> 0]
    /\ last = NoCall
    /\ hist = [s \in Srcs |-> NoHist]

CarveIdle == cbuf = Nil /\ cin = Nil /\ cret = [ptype |-> -1, data |-> Nil] /\ cpc = "idle"

NoToken == [length |-> 0, thistype |-> -1]

CleanIdle ==
    query = Nil /\ qout = Nil /\ qout2 = Nil /\ qpc = "idle" /\ token = NoToken

NoTimes == [min |-> 0, avg |-> 0, max |-> 0]

TimesIdle == timings = <<>> /\ tret = NoTimes /\ tpc = "idle"

Init ==
    /\ FlowInit
    /\ format = DefaultFormat
    /\ CarveIdle
    /\ CleanIdle
    /\ TimesIdle

Next ==
    \/ \E src \in Srcs, data \in RequestPayloads : HandleRequest(src, data)
    \/ \E src \in Srcs, data \in ResponsePayloads : HandleResponse(src, data)

Spec == Init /\ [][Next]_vars

-----------------------------------------------------------------------------
(* The specification of carvePacket alone                                   *)

\* The frame of length bytes 6, 0, 0, sequence number 0, command 3 and the
\* bytes of "SELECT", and the same frame with length bytes 7, 0, 0.
SelectFrame6 == <<6, 0, 0, 0, 3, 83, 69, 76, 69, 67, 84>>
SelectFrame7 == <<7, 0, 0, 0, 3, 83, 69, 76, 69, 67, 84>>

CarveBytes == 0..3

CarveInputs == SeqsUpTo(CarveBytes, MaxBuf) \cup {SelectFrame6, SelectFrame7}

InitCarve ==
    /\ FlowInit
    /\ format = DefaultFormat
    /\ CleanIdle
    /\ TimesIdle
    /\ cin \in CarveInputs
    /\ cbuf = cin
    /\ cret = [ptype |-> -1, data |-> Nil]
    /\ cpc = "start"

\* ptype, data := carvePacket(&cbuf)
Carve ==
    /\ cpc = "start"
    /\ LET r == carvePacket(cbuf) IN
       /\ cbuf' = r.buf
       /\ cret' = [ptype |-> r.ptype, data |-> r.data]
    /\ cpc' = "done"
    /\ UNCHANGED <<cin, flowVars, cleanVars, timesVars>>

NextCarve == Carve

SpecCarve == InitCarve /\ [][NextCarve]_vars

-----------------------------------------------------------------------------
(* The specification of cleanupQuery alone                                  *)

\* The bytes of the free-form texts: a, 1, ', ", backslash, space, tab, :
\* and ?.
QueryBytes == {97, 49, 39, 34, 92, 32, 9, 58, 63}

\* The bytes of route annotations: x, :, 1 and '.
AnnBytes == {120, 58, 49, 39}

\* Texts around a route comment: token0 and the rest.
RouteHeads == {<<97>>, <<>>, <<49>>}
RouteRests == {<<98>>, <<98, 32, 32, 50>>, <<>>}

\* token0 /* annotation */ rest, and the same text cut after the comment.
RouteTexts ==
    UNION {{h \o <<32, 47, 42, 32>> \o a \o <<32, 42, 47, 32>> \o r,
            h \o <<32, 47, 42, 32>> \o a \o <<32, 42, 47>>} :
           <<h, a, r>> \in RouteHeads \X SeqsUpTo(AnnBytes, MaxAnn) \X RouteRests}

\* SELECT * FROM t WHERE id = 42 AND name = 'bob'
SelectWhere ==
    <<83, 69, 76, 69, 67, 84, 32, 42, 32, 70, 82, 79, 77, 32, 116, 32, 87, 72,
      69, 82, 69, 32, 105, 100, 32, 61, 32, 52, 50, 32, 65, 78, 68, 32, 110,
      97, 109, 101, 32, 61, 32, 39, 98, 111, 98, 39>>

\* SELECT /* web1:checkout */ * FROM t
SelectRoute ==
    <<83, 69, 76, 69, 67, 84, 32, 47, 42, 32, 119, 101, 98, 49, 58, 99, 104,
      101, 99, 107, 111, 117, 116, 32, 42, 47, 32, 42, 32, 70, 82, 79, 77, 32,
      116>>

CleanInputs ==
    SeqsUpTo(QueryBytes, MaxQuery) \cup RouteTexts \cup {SelectWhere, SelectRoute}

InitClean ==
    /\ FlowInit
    /\ format = DefaultFormat
    /\ CarveIdle
    /\ TimesIdle
    /\ query \in CleanInputs
    /\ qout = Nil
    /\ qout2 = Nil
    /\ qpc = "start"
    /\ token = NoToken

\* qout := cleanupQuery(query)
CleanOnce ==
    /\ qpc = "start"
    /\ qout' = cleanupQuery(query)
    /\ qpc' = "once"
    /\ UNCHANGED <<query, qout2, token, flowVars, carveVars, timesVars>>

\* qout2 := cleanupQuery(qout)
CleanTwice ==
    /\ qpc = "once"
    /\ qout2' = cleanupQuery(qout)
    /\ qpc' = "twice"
    /\ UNCHANGED <<query, qout, token, flowVars, carveVars, timesVars>>

NextClean == CleanOnce \/ CleanTwice

SpecClean == InitClean /\ [][NextClean]_vars

-----------------------------------------------------------------------------
(* The specification of scanToken alone                                     *)

\* 'bob' x
BobX == <<39, 98, 111, 98, 39, 32, 120>>

\* 'a\\' x, with two backslashes before the second quote
EscX == <<39, 97, 92, 92, 39, 32, 120>>

\* s2compiled
S2compiled == <<115, 50, 99, 111, 109, 112, 105, 108, 101, 100>>

\* scanToken is called with non-empty texts only.
ScanInputs == (SeqsUpTo(QueryBytes, MaxQuery) \ {<<>>}) \cup {BobX, EscX, S2compiled}

InitScan ==
    /\ FlowInit
    /\ format = DefaultFormat
    /\ CarveIdle
    /\ TimesIdle
    /\ query \in ScanInputs
    /\ qout = Nil
    /\ qout2 = Nil
    /\ qpc = "scan"
    /\ token = NoToken

\* token := scanToken(query)
Scan ==
    /\ qpc = "scan"
    /\ token' = scanToken(query)
    /\ qpc' = "scanned"
    /\ UNCHANGED <<query, qout, qout2, flowVars, carveVars, timesVars>>

NextScan == Scan

SpecScan == InitScan /\ [][NextScan]_vars

-----------------------------------------------------------------------------
(* Properties of carvePacket, under SpecCarve                               *)

\* The 24-bit little-endian number in the first three bytes of a buffer
\* (0 when there are fewer than three).
DeclaredSize(b) ==
    IF Len(b) < 3 THEN 0 ELSE b[1] + 256 * b[2] + 65536 * b[3]

\* The buffers the carver has no complete frame for.
Incomplete(b) ==
    Len(b) < 5 \/ DeclaredSize(b) = 0 \/ Len(b) < DeclaredSize(b) + 4

\* C5: for a buffer of fewer than 5 bytes, or of declared size 0, or shorter
\* than its declared size + 4, carvePacket returns (-1, nil) and leaves the
\* buffer exactly as it was.
C5_IncompleteLeavesBuffer ==
    (cpc = "done" /\ Incomplete(cin))
        => (cret.ptype = -1 /\ cret.data = Nil /\ cbuf = cin)

\* C5 witness: a call on a buffer of five bytes or more that declares more
\* bytes than it holds.
C5_Witness ==
    /\ cpc = "done"
    /\ Len(cin) >= 5
    /\ DeclaredSize(cin) > 0
    /\ Len(cin) < DeclaredSize(cin) + 4
    /\ cbuf = cin

\* C6: for a buffer of at least declared size + 4 bytes with a declared size
\* above 0, carvePacket returns the byte at offset 4 as the type and the
\* bytes [5, size + 4) as the data, and removes exactly the first size + 4
\* bytes, leaving the rest in order (nothing when the lengths are equal).
C6_CompleteCarvesOneFrame ==
    (cpc = "done" /\ ~Incomplete(cin))
        => LET size == DeclaredSize(cin) IN
           /\ cret.ptype = cin[5]
           /\ Len(cret.data) = size - 1
           /\ \A i \in 1..(size - 1) : cret.data[i] = cin[5 + i]
           /\ Len(cbuf) = Len(cin) - (size + 4)
           /\ \A i \in 1..Len(cbuf) : cbuf[i] = cin[size + 4 + i]
           /\ (Len(cin) = size + 4 => cbuf = Nil)

\* C6 witness: a call that carved a frame with a payload and left bytes
\* behind it.
C6_Witness ==
    /\ cpc = "done"
    /\ ~Incomplete(cin)
    /\ Len(cret.data) > 0
    /\ cbuf # Nil

\* The bytes of "SELECT" and of "SELEC".
SelectBytes == <<83, 69, 76, 69, 67, 84>>
SelecBytes == <<83, 69, 76, 69, 67>>

\* C7 as stated: carving the frame of length bytes 6, 0, 0, sequence number
\* 0, command 3 and the six bytes of "SELECT" yields type 3 and the data
\* "SELECT".
C7_AsStated ==
    (cpc = "done" /\ cin = SelectFrame6)
        => (cret.ptype = 3 /\ cret.data = SelectBytes)

\* C7 amended: carving that frame yields type 3 and the five bytes "SELEC",
\* the declared size counting the command byte, and leaves "T" in the
\* buffer; with length bytes 7, 0, 0 the data is "SELECT" and the buffer is
\* left empty.
C7_SelectFrame ==
    /\ (cpc = "done" /\ cin = SelectFrame6)
         => (cret.ptype = 3 /\ cret.data = SelecBytes /\ cbuf = <<84>>)
    /\ (cpc = "done" /\ cin = SelectFrame7)
         => (cret.ptype = 3 /\ cret.data = SelectBytes /\ cbuf = Nil)

\* C7 witness: the frame with length bytes 6, 0, 0 has been carved.
C7_Witness == cpc = "done" /\ cin = SelectFrame6 /\ cret.ptype = 3

-----------------------------------------------------------------------------
(* Properties of cleanupQuery, under SpecClean                              *)

\* SELECT * FROM t WHERE id = ? AND name = ?
SelectWhereShape ==
    <<83, 69, 76, 69, 67, 84, 32, 42, 32, 70, 82, 79, 77, 32, 116, 32, 87, 72,
      69, 82, 69, 32, 105, 100, 32, 61, 32, 63, 32, 65, 78, 68, 32, 110, 97,
      109, 101, 32, 61, 32, 63>>

\* SELECT /* checkout */ * FROM t
SelectRouteShape ==
    <<83, 69, 76, 69, 67, 84, 32, 47, 42, 32, 99, 104, 101, 99, 107, 111, 117,
      116, 32, 42, 47, 32, 42, 32, 70, 82, 79, 77, 32, 116>>

\* C8 as stated: a quoted literal is replaced by exactly one '?' and the text
\* after it is tokenized normally: SELECT * FROM t WHERE id = 42 AND name =
\* 'bob' yields SELECT * FROM t WHERE id = ? AND name = ?, and '' a yields
\* ? a.
C8_AsStated ==
    /\ (qpc # "start" /\ query = SelectWhere) => qout = SelectWhereShape
    /\ (qpc # "start" /\ query = <<39, 39, 32, 97>>) => qout = <<63, 32, 97>>

\* The text cleanupQuery has joined before it looks for a route.
Joined == Join(Qspace(query))

\* The positions of the spaces of a text, and of its n-th space.
SpacesOf(t) == {i \in 1..Len(t) : t[i] = 32}
NthSpace(t, n) ==
    CHOOSE i \in SpacesOf(t) : Cardinality({j \in SpacesOf(t) : j < i}) = n - 1

\* The third space-separated field of a text with four spaces or more.
Annotation(t) == SubSeq(t, NthSpace(t, 2) + 1, NthSpace(t, 3) - 1)

\* A text of at least five space-separated fields, the second "/*", the
\* fourth "*/", the third with a colon in it.
RouteShape(t) ==
    /\ Cardinality(SpacesOf(t)) >= 4
    /\ SubSeq(t, NthSpace(t, 1) + 1, NthSpace(t, 2) - 1) = <<47, 42>>
    /\ SubSeq(t, NthSpace(t, 3) + 1, NthSpace(t, 4) - 1) = <<42, 47>>
    /\ \E i \in 1..Len(Annotation(t)) : Annotation(t)[i] = 58

\* The annotation after its first colon.
RouteSuffix(t) ==
    LET a == Annotation(t)
        c == CHOOSE i \in 1..Len(a) : a[i] = 58 /\ \A j \in 1..(i - 1) : a[j] # 58
    IN  SubSeq(a, c + 1, Len(a))

\* field0 /* suffix */ rest
Rerouted(t) ==
    SubSeq(t, 1, NthSpace(t, 1) - 1) \o <<32, 47, 42, 32>> \o RouteSuffix(t)
    \o <<32, 42, 47, 32>> \o SubSeq(t, NthSpace(t, 4) + 1, Len(t))

\* C9 as stated: cleanupQuery(cleanupQuery(q)) = cleanupQuery(q) for every
\* text q.
C9_AsStated == qpc = "twice" => qout2 = qout

\* C9 amended: a second cleanupQuery leaves the text as it is exactly when
\* the first one rewrote no route annotation, or rewrote one whose part
\* after the first colon is not empty, holds no further colon and does not
\* begin with a digit.
C9_FixedPoint ==
    qpc = "twice" =>
        (qout2 = qout <=>
            \/ ~RouteShape(Joined)
            \/ LET suffix == RouteSuffix(Joined) IN
               /\ suffix # <<>>
               /\ \A i \in 1..Len(suffix) : suffix[i] # 58
               /\ ~(suffix[1] >= 48 /\ suffix[1] <= 57))

\* C9 witness: a text whose route annotation was rewritten and whose result
\* the second call left as it was.
C9_Witness ==
    /\ qpc = "twice"
    /\ RouteShape(Joined)
    /\ qout # Joined
    /\ qout2 = qout

\* C10: when the joined text has the route shape the result is field0, the
\* comment holding the annotation after its first colon, and the rest;
\* otherwise the joined text is returned as it is.  SELECT /* web1:checkout
\* */ * FROM t yields SELECT /* checkout */ * FROM t.
C10_RouteRewriting ==
    /\ qpc # "start" =>
         qout = IF RouteShape(Joined) THEN Rerouted(Joined) ELSE Joined
    /\ (qpc # "start" /\ query = SelectRoute) => qout = SelectRouteShape

\* C10 witness: a text with a route annotation whose text before the colon
\* has been removed.
C10_Witness ==
    /\ qpc = "once"
    /\ RouteShape(Joined)
    /\ Len(qout) < Len(Joined)
    /\ qout = Rerouted(Joined)

-----------------------------------------------------------------------------
(* Properties of the packet handler, under Spec                             *)

\* The source is known and synced.
Synced(src) == src \in DOMAIN chmap /\ chmap[src].synced

\* The step is a packet of the given direction for the source.
Delivers(src, request) ==
    /\ stats'.rcvd = stats.rcvd + 1
    /\ last'.src = src
    /\ last'.request = request

\* The payload begins with a complete frame of command COM_QUERY.
BeginsWithQuery(data) == ~Incomplete(data) /\ data[5] = 3

\* After the step the source holds no buffered bytes.
BuffersEmptyAfter(src) ==
    chmap'[src].reqbuffer = Nil /\ chmap'[src].resbuffer = Nil

\* C1 for one step: a packet for a new or unsynced source leaves it unsynced
\* with both buffers empty when it is a response, or a request that does not
\* begin with a complete COM_QUERY frame, and synced when it is a request
\* that does.
C1_Step(src) ==
    /\ (~Synced(src) /\ Delivers(src, FALSE))
         => (~chmap'[src].synced /\ BuffersEmptyAfter(src))
    /\ (~Synced(src) /\ Delivers(src, TRUE) /\ ~BeginsWithQuery(last'.data))
         => (~chmap'[src].synced /\ BuffersEmptyAfter(src))
    /\ (~Synced(src) /\ Delivers(src, TRUE) /\ BeginsWithQuery(last'.data))
         => chmap'[src].synced

\* C1: a newly created source is unsynced; on an unsynced source a response,
\* or a request whose first frame is incomplete or not a COM_QUERY, leaves it
\* unsynced with both buffers empty, and a request whose first frame is a
\* complete COM_QUERY makes it synced.
C1_SyncAcquisition == [][\A src \in Srcs : C1_Step(src)]_vars

\* C1 witness: the first packet of a source was a COM_QUERY request and the
\* source is synced.
C1_Witness ==
    /\ stats.rcvd = 1
    /\ last.request
    /\ last.ptype = COM_QUERY
    /\ chmap[last.src].synced

\* C2: a source is synced only if an earlier request packet of that source
\* carved a COM_QUERY frame, and the only step that takes a source from
\* unsynced to synced is a request that begins with a complete COM_QUERY
\* frame.
C2_SyncedOnlyAfterQuery ==
    /\ [](\A src \in DOMAIN chmap : chmap[src].synced => hist[src].sawQuery)
    /\ [][\A src \in Srcs :
            (~Synced(src) /\ src \in DOMAIN chmap' /\ chmap'[src].synced)
                => (Delivers(src, TRUE) /\ BeginsWithQuery(last'.data)
                    /\ last'.ptype = COM_QUERY)]_vars

\* C2 witness: a synced source whose latest packet was a response.
C2_Witness ==
    /\ last.src \in DOMAIN chmap
    /\ ~last.request
    /\ chmap[last.src].synced
    /\ hist[last.src].sawQuery

\* The step is a complete request frame for a synced source whose previous
\* complete request frame was followed by no complete response: by nothing
\* ("request") or by incomplete responses only ("incomplete").
SecondRequest(src) ==
    /\ Synced(src)
    /\ Delivers(src, TRUE)
    /\ ~Incomplete(last'.data)
    /\ hist[src].sinceReq \in {"request", "incomplete"}

\* C3 as stated: the second of two consecutive complete request frames with
\* no complete response between them increments the desync counter by one
\* and leaves the response buffer empty, whether no response bytes or an
\* incomplete response arrived in between.
C3_AsStated ==
    [][\A src \in Srcs :
         SecondRequest(src)
            => (stats'.desyncs = stats.desyncs + 1 /\ chmap'[src].resbuffer = Nil)]_vars

\* C3 amended: the second request leaves the response buffer empty; it
\* increments the desync counter by one when an incomplete response arrived
\* in between, and leaves the counter as it is when no response bytes did.
C3_DesyncOnBufferedResponse ==
    [][\A src \in Srcs :
         SecondRequest(src)
            => /\ chmap'[src].resbuffer = Nil
               /\ hist[src].sinceReq = "incomplete"
                    => stats'.desyncs = stats.desyncs + 1
               /\ hist[src].sinceReq = "request"
                    => stats'.desyncs = stats.desyncs]_vars

\* C3 witness: a complete request frame has followed an incomplete response
\* to the request before it, and one desync is counted.
C3_Witness ==
    /\ last.request
    /\ last.since = "incomplete"
    /\ last.ptype # -1
    /\ stats.desyncs = 1
    /\ chmap[last.src].resbuffer = Nil

\* C4 as stated: on a synced source, a request frame whose bytes come in two
\* consecutive request packets, the first short of the frame and the second
\* holding the rest, is carved as one frame at the second packet, with the
\* command and the payload of the whole frame.
C4_AsStated ==
    [][\A src \in Srcs :
         LET whole == chmap[src].reqbuffer \o last'.data IN
         (/\ Synced(src)
          /\ last.src = src /\ last.request
          /\ chmap[src].reqbuffer = last.data
          /\ Incomplete(last.data)
          /\ Delivers(src, TRUE)
          /\ ~Incomplete(whole)
          /\ Len(whole) = DeclaredSize(whole) + 4)
            => (last'.ptype = whole[5] /\ last'.pdata = SubSeq(whole, 6, Len(whole)))]_vars

-----------------------------------------------------------------------------
(* The specification of calculateTimes alone                                *)

\* The slot values of the arrays, in nanoseconds; 0 is an unfilled slot.
SampleValues == {0, 1, 2, 10, 20, 30}

TimesInputs == [0..(TimesSlots - 1) -> SampleValues]

InitTimes ==
    /\ FlowInit
    /\ format = DefaultFormat
    /\ CarveIdle
    /\ CleanIdle
    /\ timings \in TimesInputs
    /\ tret = NoTimes
    /\ tpc = "start"

\* min, avg, max := calculateTimes(&timings)
Summarize ==
    /\ tpc = "start"
    /\ tret' = calculateTimes(timings)
    /\ tpc' = "done"
    /\ UNCHANGED <<timings, flowVars, carveVars, cleanVars>>

NextTimes == Summarize

SpecTimes == InitTimes /\ [][NextTimes]_vars

-----------------------------------------------------------------------------
(* Properties of calculateTimes, under SpecTimes                            *)

\* The slots of an array that hold a sample.
Filled(t) == {i \in DOMAIN t : t[i] # 0}

\* The sum of the slots I of an array.
RECURSIVE SumOf(_, _)
SumOf(t, I) ==
    IF I = {} THEN 0
    ELSE LET i == CHOOSE j \in I : TRUE IN t[i] + SumOf(t, I \ {i})

\* C11: min and max are the least and the greatest non-zero slot and avg is
\* the floor of the sum of the non-zero slots over their number, so min <=
\* avg <= max; slots equal to 0 contribute nothing; the result is (0, 0, 0)
\* exactly when every slot is 0; non-zero slots 10, 20, 30 give 10, 20, 30.
C11_Summary ==
    tpc = "done" =>
        LET F == Filled(timings) IN
        /\ F = {} <=> tret = NoTimes
        /\ F # {} =>
             /\ \E i \in F : tret.min = timings[i]
             /\ \A i \in F : tret.min <= timings[i]
             /\ \E i \in F : tret.max = timings[i]
             /\ \A i \in F : tret.max >= timings[i]
             /\ tret.avg = SumOf(timings, F) \div Cardinality(F)
             /\ tret.min <= tret.avg /\ tret.avg <= tret.max
        /\ (Cardinality(F) = 3 /\ {timings[i] : i \in F} = {10, 20, 30})
             => tret = [min |-> 10, avg |-> 20, max |-> 30]

\* C11 witness: an array with an unfilled slot and the samples 10, 20 and
\* 30 has been summarized as 10, 20, 30.
C11_Witness ==
    /\ tpc = "done"
    /\ \E i \in DOMAIN timings : timings[i] = 0
    /\ Cardinality(Filled(timings)) = 3
    /\ {timings[i] : i \in Filled(timings)} = {10, 20, 30}
    /\ tret = [min |-> 10, avg |-> 20, max |-> 30]

-----------------------------------------------------------------------------
(* C12: one queryData per key                                               *)

\* The keys the completed requests of the sources built.
BuiltKeys == UNION {DOMAIN hist[s].built : s \in Srcs}

\* How many completed requests, of all sources, built the key k.
BuiltCount(k) ==
    SumOf([s \in Srcs |-> IF k \in DOMAIN hist[s].built
                          THEN hist[s].built[k] ELSE 0], Srcs)

\* C12: the map holds exactly the keys completed requests built, one
\* queryData each; the count of a key is the number of completed requests,
\* of every source, that built it; a source that completed a request refers
\* to the queryData of its latest key; the counts add up to querycount,
\* the number of completed requests.
C12_AggregateIdentity ==
    /\ DOMAIN qbuf = BuiltKeys
    /\ \A k \in DOMAIN qbuf : qbuf[k].count = BuiltCount(k)
    /\ \A s \in DOMAIN chmap :
          hist[s].nreq > 0 =>
            /\ chmap[s].qdata = chmap[s].qtext
            /\ chmap[s].qdata \in DOMAIN hist[s].built
    /\ SumOf([k \in DOMAIN qbuf |-> qbuf[k].count], DOMAIN qbuf) = querycount
    /\ querycount = SumOf([s \in Srcs |-> hist[s].nreq], Srcs)

\* C12 witness: two sources completed requests that built one key, which
\* one of them built twice, and both refer to its queryData of count 3.
C12_Witness ==
    \E k \in DOMAIN qbuf, s1, s2 \in DOMAIN chmap :
        /\ s1 # s2
        /\ k \in DOMAIN hist[s1].built /\ hist[s1].built[k] = 2
        /\ k \in DOMAIN hist[s2].built
        /\ qbuf[k].count = 3
        /\ chmap[s1].qdata = k /\ chmap[s2].qdata = k
        /\ querycount = 3

-----------------------------------------------------------------------------
(* C13: a request on a synced source with response bytes buffered           *)

\* The step is a request packet for a synced source whose response buffer
\* holds bytes.
PipelinedRequest(src) ==
    /\ Synced(src)
    /\ chmap[src].resbuffer # Nil
    /\ Delivers(src, TRUE)

\* C13 as stated: the request counts one desync and leaves the source
\* unsynced with both buffers empty, whatever the request holds.
C13_AsStated ==
    [][\A src \in Srcs :
         PipelinedRequest(src)
            => /\ stats'.desyncs = stats.desyncs + 1
               /\ ~chmap'[src].synced
               /\ BuffersEmptyAfter(src)]_vars

\* C13 amended: the request counts one desync and empties the response
\* buffer; the source is left unsynced with both buffers empty and nothing
\* counted unless the request begins with a complete COM_QUERY frame, and
\* then the same call syncs the source again, counts the request and keeps
\* the bytes after the frame in the request buffer.
C13_PipeliningDesync ==
    [][\A src \in Srcs :
         PipelinedRequest(src)
            => /\ stats'.desyncs = stats.desyncs + 1
               /\ chmap'[src].resbuffer = Nil
               /\ ~BeginsWithQuery(last'.data)
                    => /\ ~chmap'[src].synced
                       /\ BuffersEmptyAfter(src)
                       /\ querycount' = querycount
               /\ BeginsWithQuery(last'.data)
                    => /\ chmap'[src].synced
                       /\ chmap'[src].reqSent = "set"
                       /\ querycount' = querycount + 1
                       /\ chmap'[src].reqbuffer =
                            Slice(last'.data, DeclaredSize(last'.data) + 4,
                                  Len(last'.data))]_vars

\* C13 witness: a request with bytes after its COM_QUERY frame came to a
\* synced source with response bytes buffered; one desync is counted, the
\* source is synced and keeps the bytes after the frame.
C13_Witness ==
    /\ last.request /\ last.wasSynced /\ last.wasPipelined
    /\ last.ptype = COM_QUERY
    /\ stats.desyncs = 1
    /\ chmap[last.src].synced
    /\ chmap[last.src].resbuffer = Nil
    /\ chmap[last.src].reqbuffer # Nil

-----------------------------------------------------------------------------
(* C14: a COM_QUERY request syncs a source from any state                   *)

\* The count of the key k in the map, 0 when the map has no such key.
CountOf(q, k) == IF k \in DOMAIN q THEN q[k].count ELSE 0

\* C14: whatever the state of the source (new, unsynced after a desync,
\* synced with an incomplete frame or bytes after a frame in a buffer), a
\* request packet that begins with a complete COM_QUERY frame leaves it
\* synced, with reqSent set and the request counted once under the key of
\* its text, to whose queryData the source refers.
C14_Recovery ==
    [][\A src \in Srcs :
         (Delivers(src, TRUE) /\ BeginsWithQuery(last'.data))
            => LET k == cleanupQuery(Slice(last'.data, 5,
                                           DeclaredSize(last'.data) + 4)) IN
               /\ chmap'[src].synced
               /\ chmap'[src].reqSent = "set"
               /\ last'.ptype = COM_QUERY
               /\ chmap'[src].qtext = k /\ chmap'[src].qdata = k
               /\ k \in DOMAIN qbuf'
               /\ qbuf'[k].count = CountOf(qbuf, k) + 1
               /\ querycount' = querycount + 1]_vars

\* C14 witness: the one source of the run was desynced by a request that
\* left it unsynced, and the COM_QUERY request after it synced it again and
\* was counted.
C14_Witness ==
    /\ stats.streams = 1 /\ stats.desyncs = 1
    /\ last.request /\ ~last.wasSynced /\ ~last.wasPipelined
    /\ last.ptype = COM_QUERY
    /\ chmap[last.src].synced
    /\ chmap[last.src].reqSent = "set"
    /\ hist[last.src].nreq = 2
    /\ querycount = 2

-----------------------------------------------------------------------------
(* C15: a response without a request before it                              *)

\* The step is a response packet that begins with a complete frame, for a
\* synced source with no request outstanding.
OrphanResponse(src) ==
    /\ Synced(src)
    /\ chmap[src].reqSent = "nil"
    /\ Delivers(src, FALSE)
    /\ ~Incomplete(last'.data)

\* C15 as stated: the orphaned response counts one desync and leaves both
\* buffers of the source empty.
C15_AsStated ==
    [][\A src \in Srcs :
         OrphanResponse(src)
            => /\ stats'.desyncs = stats.desyncs + 1
               /\ BuffersEmptyAfter(src)]_vars

\* C15 amended: the orphaned response is ignored: the desync counter, the
\* timings, the map and querycount are as before, the source stays synced,
\* and of the source only the response buffer changes, to the bytes after
\* the carved frame.
C15_OrphanIgnored ==
    [][\A src \in Srcs :
         OrphanResponse(src)
            => /\ stats'.desyncs = stats.desyncs
               /\ times' = times /\ qbuf' = qbuf /\ querycount' = querycount
               /\ chmap'[src].synced
               /\ chmap'[src] =
                    [chmap[src] EXCEPT !.resbuffer =
                        Slice(last'.data, DeclaredSize(last'.data) + 4,
                              Len(last'.data))]]_vars

\* C15 witness: a complete response frame followed by one more byte came to
\* a synced source with no request outstanding; no desync is counted, the
\* source is synced and its response buffer holds the byte after the frame.
C15_Witness ==
    /\ ~last.request /\ last.wasSynced /\ ~last.wasPending
    /\ last.ptype # -1
    /\ stats.desyncs = 0
    /\ chmap[last.src].synced
    /\ chmap[last.src].reqSent = "nil"
    /\ chmap[last.src].resbuffer # Nil

-----------------------------------------------------------------------------
(* C16: a response to an outstanding request                                *)

\* The step is a response packet that begins with a complete frame, for a
\* synced source with a request outstanding.
MatchedResponse(src) ==
    /\ Synced(src)
    /\ chmap[src].reqSent = "set"
    /\ Delivers(src, FALSE)
    /\ ~Incomplete(last'.data)

\* C16: the timing is written at one slot i of the source's array and of
\* the global array and, when the source refers to a queryData, at slot i
\* of its array, and its bytes grow by the length of the response payload;
\* reqSent becomes nil; the count of that queryData, every other queryData,
\* every other slot of the three arrays, querycount and every other source
\* are as before.
C16_MatchedResponse ==
    [][\A src \in Srcs :
         MatchedResponse(src)
            => \E i \in Slots, v \in Latencies :
                 LET k    == chmap[src].qdata
                     plen == DeclaredSize(last'.data) - 1
                 IN
                 /\ chmap'[src].reqTimes = [chmap[src].reqTimes EXCEPT ![i] = v]
                 /\ times' = [times EXCEPT ![i] = v]
                 /\ qbuf' = IF k # NoData
                            THEN [qbuf EXCEPT ![k].times[i] = v,
                                              ![k].bytes = @ + plen]
                            ELSE qbuf
                 /\ chmap'[src].reqSent = "nil"
                 /\ querycount' = querycount
                 /\ DOMAIN chmap' = DOMAIN chmap
                 /\ \A other \in DOMAIN chmap \ {src} :
                       chmap'[other] = chmap[other]]_vars

\* C16 witness: a response with a one-byte payload answered the outstanding
\* request of a source; one slot of the source's array, of the global array
\* and of the array of the source's queryData holds the timing, and reqSent
\* is nil.
C16_Witness ==
    /\ ~last.request /\ last.wasSynced /\ last.wasPending
    /\ last.ptype # -1 /\ Len(last.pdata) = 1
    /\ chmap[last.src].reqSent = "nil"
    /\ chmap[last.src].qdata \in DOMAIN qbuf
    /\ \E i \in Slots :
          /\ times[i] = 1
          /\ chmap[last.src].reqTimes[i] = 1
          /\ qbuf[chmap[last.src].qdata].times[i] = 1
          /\ \A j \in Slots \ {i} : times[j] = 0

-----------------------------------------------------------------------------
(* C19: unsynced sources hold no bytes                                      *)

\* C19: after every call an unsynced source has both buffers empty; only
\* synced sources hold bytes from one call to the next.
C19_UnsyncedHoldsNothing ==
    \A src \in DOMAIN chmap :
        (chmap[src].reqbuffer # Nil \/ chmap[src].resbuffer # Nil)
            => chmap[src].synced

\* C19 witness: a synced source with response bytes buffered got a request
\* packet that desynced it, and it is unsynced with both buffers empty.
C19_Witness ==
    /\ last.request /\ last.wasSynced /\ last.wasPipelined
    /\ last.data # Nil
    /\ ~chmap[last.src].synced
    /\ chmap[last.src].reqbuffer = Nil
    /\ chmap[last.src].resbuffer = Nil

-----------------------------------------------------------------------------
(* C20: timings pair with requests                                          *)

\* The timings of the source, all zero for a source not yet known.
ReqTimesOf(ch, src) == IF src \in DOMAIN ch THEN ch[src].reqTimes ELSE ZeroTimes

\* Whether the source has a request outstanding.
Pending(ch, src) == src \in DOMAIN ch /\ ch[src].reqSent = "set"

\* The step changes no array of timings and no queryData.
NoTimingChanges ==
    /\ times' = times
    /\ qbuf' = qbuf
    /\ \A s \in Srcs : ReqTimesOf(chmap', s) = ReqTimesOf(chmap, s)

\* The step completes a request of the source.
CompletesRequest(src) == hist'[src].nreq = hist[src].nreq + 1

\* The step records a timing for the source.
RecordsTiming(src) == hist'[src].nrec = hist[src].nrec + 1

\* C20 for one step: a timing is recorded exactly by a complete response
\* frame for a synced source with a request outstanding, and recording it
\* clears the outstanding request; an array of timings changes in such a
\* step only; a request becomes outstanding by a completed request only;
\* a response for a source without an outstanding request changes no
\* array of timings and no queryData.
C20_Step ==
    /\ \A src \in Srcs :
          /\ RecordsTiming(src) <=> MatchedResponse(src)
          /\ hist'[src].nrec # hist[src].nrec => RecordsTiming(src)
          /\ RecordsTiming(src) => ~Pending(chmap', src)
          /\ (~Pending(chmap, src) /\ Pending(chmap', src))
                => (Delivers(src, TRUE) /\ CompletesRequest(src))
          /\ CompletesRequest(src) => Pending(chmap', src)
          /\ (Delivers(src, FALSE) /\ ~Pending(chmap, src)) => NoTimingChanges
    /\ (\A src \in Srcs : ~MatchedResponse(src))
          => /\ times' = times
             /\ \A s \in Srcs : ReqTimesOf(chmap', s) = ReqTimesOf(chmap, s)
             /\ \A k \in DOMAIN qbuf : qbuf'[k].times = qbuf[k].times

\* C20: every step is as C20_Step says; hence a source never has more
\* timings recorded than requests completed, and has more requests
\* completed than timings recorded while a request is outstanding.
C20_Pairing ==
    /\ [](\A src \in Srcs :
            /\ hist[src].nrec <= hist[src].nreq
            /\ Pending(chmap, src) => hist[src].nrec < hist[src].nreq)
    /\ [][C20_Step]_vars

\* C20 witness: a source completed a request, recorded its timing,
\* completed another request and recorded its timing.
C20_Witness ==
    /\ ~last.request /\ last.wasSynced /\ last.wasPending
    /\ last.ptype # -1
    /\ hist[last.src].nreq = 2
    /\ hist[last.src].nrec = 2
    /\ chmap[last.src].reqSent = "nil"

-----------------------------------------------------------------------------
(* Properties of scanToken, under SpecScan                                  *)

\* The number of consecutive backslashes that end just before position j
\* (1-based) of q, not counting position 1.
RECURSIVE BackslashesBefore(_, _)
BackslashesBefore(q, j) ==
    IF j - 1 < 2 \/ q[j - 1] # 92 THEN 0 ELSE 1 + BackslashesBefore(q, j - 1)

\* The quote at position j closes the run opened at position 1: it is the
\* opening quote again, after an even number of backslashes.
Closes(q, j) == q[j] = q[1] /\ BackslashesBefore(q, j) % 2 = 0

\* The length of the quoted run as C17 states it: up to and including the
\* first closing quote, or the whole text.
QuotedExtent(q) ==
    LET closing == {j \in 2..Len(q) : Closes(q, j)} IN
    IF closing = {} THEN Len(q)
    ELSE CHOOSE j \in closing : \A m \in closing : j <= m

\* C17 as stated: on a text that begins with a quote the run is a quoted
\* literal that ends at, and includes, the first later byte equal to the
\* opening quote after an even number of backslashes, or is the whole text
\* without such a byte; 'bob' x gives 5, and in 'a\\' x the second quote
\* closes the run.
C17_AsStated ==
    (qpc = "scanned" /\ IsQuote(query[1]))
        => /\ token.thistype = TOKEN_QUOTE
           /\ token.length = QuotedExtent(query)
           /\ query = BobX => token.length = 5
           /\ query = EscX => token.length = 5

-----------------------------------------------------------------------------
(* C18: the extent of a literal run                                         *)

\* The text begins a literal run.
BeginsLiteral(q) == ~IsQuote(q[1]) /\ ~IsDigit(q[1]) /\ ~IsSpace(q[1])

\* The length of the text before its first byte, after position 1, that
\* the test Ends holds of; the whole length without one.
ExtentUpTo(q, Ends(_)) ==
    LET ending == {j \in 2..Len(q) : Ends(q[j])} IN
    IF ending = {} THEN Len(q)
    ELSE (CHOOSE j \in ending : \A m \in ending : j <= m) - 1

EndsRunAsStated(b) == IsDigit(b) \/ IsQuote(b) \/ IsSpace(b)

EndsRun(b) == IsQuote(b) \/ IsSpace(b)

=============================================================================
